---- MODULE Spec2Model ----
(***************************************************************************)
(* A model of kolibri_daemon/application.py: the client-hold registry and  *)
(* the reconciliation timers of PublicDBusInterface, the LoginTokenManager *)
(* and the hold-token bookkeeping of Application.                          *)
(*                                                                         *)
(* Python values are modelled as follows.  None and an absent result are   *)
(* the empty sequence <<>> and a present value v is <<v>>; a str is a      *)
(* sequence of one-character strings; a dict is a function whose DOMAIN is *)
(* its key set.  Time is counted in whole seconds of the monotonic clock.  *)
(***************************************************************************)
EXTENDS Integers, Sequences, FiniteSets, TLC

VARIABLES
    phase,                          \* "constructed", "running" or "shutdown"
    now,                            \* time.monotonic(), in seconds
    use_session_bus,                \* Application.__use_session_bus
    use_system_bus,                 \* Application.__use_system_bus
    accounts_service,               \* PublicDBusInterface.__accounts_service
    use_count,                      \* GApplication's use count (hold/release)
    inactivity_due,                 \* GApplication's inactivity timeout source
    hold_tokens,                    \* Application.__hold_tokens
    login_tokens,                   \* LoginTokenManager.__login_tokens
    next_uuid,                      \* the next value uuid4() returns
    reply,                          \* how the last login-token invocation completed
    alive,                          \* the client names that still own their connection
    hold_clients,                   \* PublicDBusInterface.__hold_clients: name -> watch id
    bus_watches,                    \* Gio's active name watches: records [id, name]
    next_watch_id,                  \* the id Gio gives the next name watch
    sources,                        \* GLib's pending timeout sources: [id, cb, due]
    next_source_id,                 \* the id GLib gives the next source
    watch_changes_timeout_source,   \* PublicDBusInterface.__watch_changes_timeout_source
    auto_stop_timeout_source,       \* PublicDBusInterface.__auto_stop_timeout_source
    stop_kolibri_timeout_source,    \* PublicDBusInterface.__stop_kolibri_timeout_source
    stop_kolibri_timeout_interval,  \* PublicDBusInterface.__stop_kolibri_timeout_interval
    svc,                            \* the ServiceManager's run state
    held,                           \* history: clients held and not since released
    released_at,                    \* history: when the last held client was released, if no
                                    \* client was held since and less than the stop interval ago
    last,                           \* history: the last turn of the controller
    timer_stops,                    \* history: stops the timer requested in this run
    issued,                         \* history: every token generate_for_user returned
    redeemed,                       \* history: how often pop_login_token returned each key's token
    lastPop,                        \* history: the last pop_login_token call
    lastGet                         \* history: the GetLoginToken call, if it was the last
                                    \* call for a login token

appVars   == <<use_count, inactivity_due, hold_tokens>>
busVars   == <<use_session_bus, use_system_bus, accounts_service>>
tokenVars == <<login_tokens, next_uuid, issued, redeemed, lastPop, lastGet>>
regVars   == <<hold_clients, bus_watches, next_watch_id, held, released_at>>
timerVars == <<sources, next_source_id, watch_changes_timeout_source,
               auto_stop_timeout_source, stop_kolibri_timeout_source>>
svcVars   == <<svc>>
histVars  == <<timer_stops>>
vars      == <<phase, now, busVars, appVars, tokenVars, reply, alive, regVars,
               timerVars, stop_kolibri_timeout_interval, svcVars, histVars, last>>

-----------------------------------------------------------------------------
(* Program constants *)

INACTIVITY_TIMEOUT_S == 30
DEFAULT_STOP_KOLIBRI_TIMEOUT_SECONDS == 60
TOKEN_EXPIRE_TIME == 60

(* Bounds of the model *)

MaxUuid == 2
MaxTokenTime == 90
MaxTime == 12
MaxExitTime == 36
QuietFrom == 8
MaxWatchId == 2

Clients == {"c1", "c2"}

None == <<>>

-----------------------------------------------------------------------------
(* str values *)

DecDigits == <<"0", "1", "2", "3", "4", "5", "6", "7", "8", "9">>
HexDigits == DecDigits \o <<"a", "b", "c", "d", "e", "f">>

RECURSIVE Str(_)
Str(n) == IF n < 10 THEN <<DecDigits[n + 1]>>
          ELSE Str(n \div 10) \o <<DecDigits[(n % 10) + 1]>>

RECURSIVE Hex(_)
Hex(n) == IF n < 16 THEN <<HexDigits[n + 1]>>
          ELSE Hex(n \div 16) \o <<HexDigits[(n % 16) + 1]>>

\* sep.join(parts)
RECURSIVE Join(_, _)
Join(sep, parts) ==
    IF Len(parts) = 0 THEN <<>>
    ELSE IF Len(parts) = 1 THEN parts[1]
    ELSE parts[1] \o sep \o Join(sep, Tail(parts))

\* s.partition(":"): the text before the first separator, the separator, the rest
Partition(s) ==
    LET at == {i \in 1..Len(s) : s[i] = ":"} IN
    IF at = {} THEN <<s, <<>>, <<>>>>
    ELSE LET i == CHOOSE j \in at : \A k \in at : j <= k
         IN <<SubSeq(s, 1, i - 1), <<":">>, SubSeq(s, i + 1, Len(s))>>

-----------------------------------------------------------------------------
(* Users *)

LOCAL_USER_PWD == <<[pw_uid |-> 1, pw_name |-> "local", pw_gecos |-> "Local User"]>>

\* The users the accounts service knows, by uid.
AccountsUids == {10}
AccountsUser(uid) ==
    [user_id |-> uid, user_name |-> "remote", full_name |-> "Remote User",
     is_admin |-> FALSE]

\* The uids get_user_id_for_dbus_invocation can return: the local user, a
\* user of the accounts service, and one it does not know.
CallerUids == {1, 10, 12}

\* get_user_id_for_dbus_invocation fails for a caller the bus cannot name
UnresolvedCaller == -1
Callers == CallerUids \cup {UnresolvedCaller}

\* AccountsServiceManager.get_user_by_id fails for a uid it does not know
get_user_by_id_fails(user_id) == user_id \notin AccountsUids

\* The caller of GetLoginToken can be resolved to a user: the bus names it,
\* and it is the local user or a user that the accounts service, if there
\* is one, knows
Resolved(caller) ==
    /\ caller # UnresolvedCaller
    /\ \/ LOCAL_USER_PWD # None /\ caller = LOCAL_USER_PWD[1].pw_uid
       \/ accounts_service # None /\ ~get_user_by_id_fails(caller)

from_accounts_service_user(u) ==
    [user_id |-> u.user_id, user_name |-> u.user_name,
     full_name |-> u.full_name, is_admin |-> u.is_admin]

from_pwd_user(p, is_admin) ==
    [user_id |-> p.pw_uid, user_name |-> p.pw_name,
     full_name |-> p.pw_gecos, is_admin |-> is_admin]

\* PublicDBusInterface.__get_user_detail
get_user_detail(user_id) ==
    IF LOCAL_USER_PWD # None /\ user_id = LOCAL_USER_PWD[1].pw_uid
    THEN <<from_pwd_user(LOCAL_USER_PWD[1], TRUE)>>
    ELSE IF accounts_service # None
    THEN <<from_accounts_service_user(AccountsUser(user_id))>>
    ELSE None

-----------------------------------------------------------------------------
(* GApplication's use count and inactivity timeout *)

\* g_application_hold on a = [use_count, inactivity_due]
GHold(a) == [use_count |-> a.use_count + 1, inactivity_due |-> None,
             hold_tokens |-> a.hold_tokens]

\* g_application_release at time t
GRelease(a, t) ==
    [use_count |-> a.use_count - 1,
     inactivity_due |-> IF a.use_count - 1 = 0
                        THEN <<t + INACTIVITY_TIMEOUT_S>> ELSE a.inactivity_due,
     hold_tokens |-> a.hold_tokens]

AppState == [use_count |-> use_count, inactivity_due |-> inactivity_due,
             hold_tokens |-> hold_tokens]

\* Application.reset_inactivity_timeout
reset_inactivity_timeout(a, t) == GRelease(GHold(a), t)

\* hold_with_token without its look at the token set
hold_with_token_unchecked(a, token) ==
    [GHold(a) EXCEPT !.hold_tokens = a.hold_tokens \cup {token}]

\* Application.hold_with_token
hold_with_token(a, token) ==
    IF token \notin a.hold_tokens
    THEN [GHold(a) EXCEPT !.hold_tokens = a.hold_tokens \cup {token}]
    ELSE a

\* Application.release_with_token
release_with_token(a, token, t) ==
    IF token \in a.hold_tokens
    THEN GRelease([a EXCEPT !.hold_tokens = a.hold_tokens \ {token}], t)
    ELSE a

SetApp(a) ==
    /\ use_count' = a.use_count
    /\ inactivity_due' = a.inactivity_due
    /\ hold_tokens' = a.hold_tokens

-----------------------------------------------------------------------------
(* LoginToken and LoginTokenManager *)

\* LoginToken.with_expire_time
with_expire_time(expires_in, user, key, t) ==
    [user |-> user, key |-> key, expires |-> t + expires_in]

\* is_expired with the comparison made inclusive
is_expired_at_expires(login_token, t) == login_token.expires <= t

\* LoginToken.is_expired
is_expired(login_token, t) == login_token.expires < t

\* LoginTokenManager.__generate_token_key; uuid is the value uuid4() returned
generate_token_key(user_id, uuid) == Join(<<":">>, <<user_id, Hex(uuid)>>)

\* LoginTokenManager.__revoke_expired_tokens
revoke_expired_tokens(tokens, t) ==
    [user_id \in {u \in DOMAIN tokens : ~is_expired(tokens[u], t)} |-> tokens[user_id]]

\* __add_login_token that keeps the token the user already has
add_login_token_keeping(tokens, user_detail, uuid, t) ==
    LET user_id     == Str(user_detail.user_id)
        token_key   == generate_token_key(user_id, uuid)
        login_token == with_expire_time(TOKEN_EXPIRE_TIME, user_detail, token_key, t)
    IN [tokens |-> [u \in DOMAIN tokens \cup {user_id} |->
                        IF u \in DOMAIN tokens THEN tokens[u] ELSE login_token],
        result |-> login_token]

\* LoginTokenManager.__add_login_token: the new store and the token returned
add_login_token(tokens, user_detail, uuid, t) ==
    LET user_id     == Str(user_detail.user_id)
        token_key   == generate_token_key(user_id, uuid)
        login_token == with_expire_time(TOKEN_EXPIRE_TIME, user_detail, token_key, t)
    IN [tokens |-> [u \in DOMAIN tokens \cup {user_id} |->
                        IF u = user_id THEN login_token ELSE tokens[u]],
        result |-> login_token]

\* __pop_login_token that returns the token and leaves it in the store
pop_login_token_kept(tokens, token_key) ==
    LET user_id     == Partition(token_key)[1]
        login_token == IF user_id \in DOMAIN tokens THEN <<tokens[user_id]>> ELSE None
    IN IF login_token # None /\ login_token[1].key = token_key
       THEN [tokens |-> tokens, result |-> login_token]
       ELSE [tokens |-> tokens, result |-> None]

\* __pop_login_token that looks at the user id of the key alone
pop_login_token_by_user(tokens, token_key) ==
    LET user_id     == Partition(token_key)[1]
        login_token == IF user_id \in DOMAIN tokens THEN <<tokens[user_id]>> ELSE None
    IN IF login_token # None
       THEN [tokens |-> [u \in DOMAIN tokens \ {user_id} |-> tokens[u]],
             result |-> login_token]
       ELSE [tokens |-> tokens, result |-> None]

\* LoginTokenManager.__pop_login_token: the new store and the token returned
pop_login_token_locked(tokens, token_key) ==
    LET user_id     == Partition(token_key)[1]
        login_token == IF user_id \in DOMAIN tokens THEN <<tokens[user_id]>> ELSE None
    IN IF login_token # None /\ login_token[1].key = token_key
       THEN [tokens |-> [u \in DOMAIN tokens \ {user_id} |-> tokens[u]],
             result |-> login_token]
       ELSE [tokens |-> tokens, result |-> None]

\* LoginTokenManager.generate_for_user
generate_for_user(tokens, user_detail, uuid, t) ==
    add_login_token(revoke_expired_tokens(tokens, t), user_detail, uuid, t)

\* LoginTokenManager.pop_login_token
pop_login_token(tokens, token_key, t) ==
    pop_login_token_locked(revoke_expired_tokens(tokens, t), token_key)

-----------------------------------------------------------------------------
(* The hold registry.  r = [hold_clients, bus_watches, next_watch_id] *)

RegState == [hold_clients |-> hold_clients, bus_watches |-> bus_watches,
             next_watch_id |-> next_watch_id]

\* PublicDBusInterface.clients_count
clients_count(r) == Cardinality(DOMAIN r.hold_clients)

\* __hold_for_client without the test for a client that is held already
hold_for_client_again(r, name) ==
    LET watch_id == r.next_watch_id IN
    [hold_clients  |-> [n \in DOMAIN r.hold_clients \cup {name} |->
                           IF n = name THEN watch_id ELSE r.hold_clients[n]],
     bus_watches   |-> r.bus_watches \cup {[id |-> watch_id, name |-> name]},
     next_watch_id |-> r.next_watch_id + 1]

\* PublicDBusInterface.__hold_for_client
hold_for_client(r, name) ==
    IF name \in DOMAIN r.hold_clients
    THEN r
    ELSE LET watch_id == r.next_watch_id IN
         [hold_clients  |-> [n \in DOMAIN r.hold_clients \cup {name} |->
                                IF n = name THEN watch_id ELSE r.hold_clients[n]],
          bus_watches   |-> r.bus_watches \cup {[id |-> watch_id, name |-> name]},
          next_watch_id |-> r.next_watch_id + 1]

\* __release_for_client that drops the entry and leaves its watch with Gio
release_for_client_watch_kept(r, name) ==
    IF name \notin DOMAIN r.hold_clients
    THEN r
    ELSE [hold_clients  |-> [n \in DOMAIN r.hold_clients \ {name} |-> r.hold_clients[n]],
          bus_watches   |-> r.bus_watches,
          next_watch_id |-> r.next_watch_id]

\* PublicDBusInterface.__release_for_client
release_for_client(r, name) ==
    IF name \notin DOMAIN r.hold_clients
    THEN r
    ELSE LET watch_id == r.hold_clients[name] IN
         [hold_clients  |-> [n \in DOMAIN r.hold_clients \ {name} |-> r.hold_clients[n]],
          bus_watches   |-> {w \in r.bus_watches : w.id # watch_id},
          next_watch_id |-> r.next_watch_id]

\* __on_hold_client_vanished that releases nothing
on_hold_client_vanished_ignored(r, name) == r

\* PublicDBusInterface.__on_hold_client_vanished
on_hold_client_vanished(r, name) == release_for_client(r, name)

\* The registry becomes r; the time is kept when that releases the last held
\* client, until a client is held again or the stop interval has passed
SetReg(r) ==
    /\ hold_clients' = r.hold_clients
    /\ bus_watches' = r.bus_watches
    /\ next_watch_id' = r.next_watch_id
    /\ released_at' = IF clients_count(r) > 0 THEN None
                      ELSE IF clients_count(RegState) > 0 THEN <<now>>
                      ELSE released_at

-----------------------------------------------------------------------------
(* The ServiceManager, as the controller uses it *)

\* KolibriServiceManager.is_running: running, also while starting or stopping
is_running(s) == s # "STOPPED"

\* KolibriServiceManager.start_kolibri: a request, idempotent
start_kolibri(s) == IF s = "STOPPED" THEN "STARTING" ELSE s

\* KolibriServiceManager.stop_kolibri: a request, idempotent
stop_kolibri(s) == IF s \in {"STARTING", "RUNNING"} THEN "STOPPING" ELSE s

\* KolibriServiceManager.cleanup: housekeeping; the run states it may leave
\* behind: a service that was stopping may be found to have stopped
cleanup(s) == IF s = "STOPPING" THEN {s, "STOPPED"} ELSE {s}

-----------------------------------------------------------------------------
(* The controller's timers.                                                *)
(* c = [sources, next_source_id, watch_changes_timeout_source,             *)
(*      auto_stop_timeout_source, stop_kolibri_timeout_source, svc,        *)
(*      stops]; stops counts the stop requests made in the turn.           *)

CtlState ==
    [sources |-> sources, next_source_id |-> next_source_id,
     watch_changes_timeout_source |-> watch_changes_timeout_source,
     auto_stop_timeout_source |-> auto_stop_timeout_source,
     stop_kolibri_timeout_source |-> stop_kolibri_timeout_source,
     svc |-> svc, stops |-> 0]

\* GLib.timeout_add_seconds: the source is added under the next id
timeout_add_seconds(c, interval, cb, t) ==
    [c EXCEPT !.sources = @ \cup {[id |-> c.next_source_id, cb |-> cb,
                                   due |-> t + interval]},
              !.next_source_id = @ + 1]

\* GLib.source_remove
source_remove(c, id) == [c EXCEPT !.sources = {s \in @ : s.id # id}]

\* GLib keeps a source whose callback returned SOURCE_CONTINUE, interval later
source_continue(c, id, interval, t) ==
    [c EXCEPT !.sources = {IF s.id = id THEN [s EXCEPT !.due = t + interval] ELSE s :
                           s \in @}]

\* PublicDBusInterface.__begin_watch_changes_timeout
begin_watch_changes_timeout(c, t) ==
    IF c.watch_changes_timeout_source # None
    THEN c
    ELSE [timeout_add_seconds(c, 1, "watch_changes", t)
            EXCEPT !.watch_changes_timeout_source = <<c.next_source_id>>]

\* PublicDBusInterface.__cancel_watch_changes_timeout
cancel_watch_changes_timeout(c) ==
    IF c.watch_changes_timeout_source # None
    THEN [source_remove(c, c.watch_changes_timeout_source[1])
            EXCEPT !.watch_changes_timeout_source = None]
    ELSE c

\* PublicDBusInterface.__begin_auto_stop_timeout
begin_auto_stop_timeout(c, t) ==
    IF c.auto_stop_timeout_source # None
    THEN c
    ELSE [timeout_add_seconds(c, 5, "auto_stop", t)
            EXCEPT !.auto_stop_timeout_source = <<c.next_source_id>>]

\* PublicDBusInterface.__cancel_auto_stop_timeout
cancel_auto_stop_timeout(c) ==
    IF c.auto_stop_timeout_source # None
    THEN [source_remove(c, c.auto_stop_timeout_source[1])
            EXCEPT !.auto_stop_timeout_source = None]
    ELSE c

\* __begin_stop_kolibri_timeout replacing a pending timer by a new one
begin_stop_kolibri_timeout_restart(c, interval, t) ==
    LET d == IF c.stop_kolibri_timeout_source # None
             THEN source_remove(c, c.stop_kolibri_timeout_source[1]) ELSE c
    IN [timeout_add_seconds(d, interval, "stop_kolibri", t)
          EXCEPT !.stop_kolibri_timeout_source = <<d.next_source_id>>]

\* PublicDBusInterface.__begin_stop_kolibri_timeout
begin_stop_kolibri_timeout(c, interval, t) ==
    IF c.stop_kolibri_timeout_source # None
    THEN c
    ELSE [timeout_add_seconds(c, interval, "stop_kolibri", t)
            EXCEPT !.stop_kolibri_timeout_source = <<c.next_source_id>>]

\* PublicDBusInterface.__cancel_stop_kolibri_timeout
cancel_stop_kolibri_timeout(c) ==
    IF c.stop_kolibri_timeout_source # None
    THEN [source_remove(c, c.stop_kolibri_timeout_source[1])
            EXCEPT !.stop_kolibri_timeout_source = None]
    ELSE c

\* self.__service_manager.stop_kolibri(), counted
request_stop(c) == [c EXCEPT !.svc = stop_kolibri(@), !.stops = @ + 1]

\* The callback returning SOURCE_CONTINUE: the source stays and fires again
stop_kolibri_timeout_cb_continue(c, id, count) ==
    source_continue([(IF count = 0 THEN request_stop(c) ELSE c)
                        EXCEPT !.stop_kolibri_timeout_source = None],
                    id, stop_kolibri_timeout_interval, now)

\* The callback clearing the handle only when it stops the service
stop_kolibri_timeout_cb_keeps_handle(c, id, count) ==
    source_remove(IF count = 0
                  THEN [request_stop(c) EXCEPT !.stop_kolibri_timeout_source = None]
                  ELSE c, id)

\* The callback without its look at clients_count
stop_kolibri_timeout_cb_unchecked(c, id, count) ==
    source_remove([request_stop(c) EXCEPT !.stop_kolibri_timeout_source = None], id)

\* PublicDBusInterface.__stop_kolibri_timeout_cb as source id calls it; GLib
\* destroys the source as the callback returns SOURCE_REMOVE
stop_kolibri_timeout_cb(c, id, count) ==
    source_remove([(IF count = 0 THEN request_stop(c) ELSE c)
                      EXCEPT !.stop_kolibri_timeout_source = None], id)

\* The first branch with its test of is_running the wrong way round
auto_stop_timer_step_when_stopped(c, count, interval, t) ==
    IF count = 0 /\ ~is_running(c.svc)
    THEN begin_stop_kolibri_timeout(c, interval, t)
    ELSE cancel_stop_kolibri_timeout(c)

\* The first branch of __auto_stop_timeout_cb: arm or cancel the stop timer
auto_stop_timer_step(c, count, interval, t) ==
    IF count = 0 /\ is_running(c.svc)
    THEN begin_stop_kolibri_timeout(c, interval, t)
    ELSE cancel_stop_kolibri_timeout(c)

\* The second branch holding for a running service only
auto_stop_hold_step_service_only(a, count, running, token, t) ==
    IF running
    THEN hold_with_token(a, token)
    ELSE release_with_token(a, token, t)

\* The second branch holding for clients only
auto_stop_hold_step_clients_only(a, count, running, token, t) ==
    IF count > 0
    THEN hold_with_token(a, token)
    ELSE release_with_token(a, token, t)

\* The second branch of __auto_stop_timeout_cb: hold or release the application
auto_stop_hold_step(a, count, running, token, t) ==
    IF count > 0 \/ running
    THEN hold_with_token(a, token)
    ELSE release_with_token(a, token, t)

SetCtl(c) ==
    /\ sources' = c.sources
    /\ next_source_id' = c.next_source_id
    /\ watch_changes_timeout_source' = c.watch_changes_timeout_source
    /\ auto_stop_timeout_source' = c.auto_stop_timeout_source
    /\ stop_kolibri_timeout_source' = c.stop_kolibri_timeout_source
    /\ svc' = c.svc

\* The token PublicDBusInterface passes to hold_with_token: itself
PublicInterface == "PublicDBusInterface"

-----------------------------------------------------------------------------
(* Startup *)

\* Application.do_handle_local_options; an option that was not given is None
do_handle_local_options(options, interval) ==
    LET system  == IF options.system # None THEN options.system[1] ELSE FALSE
        session == IF options.session # None THEN options.session[1]
                   ELSE IF system THEN FALSE
                   ELSE TRUE
    IN [use_system_bus  |-> system,
        use_session_bus |-> session,
        \* "if stop_timeout:" is false for an int32 variant holding 0
        autostop_timeout |-> IF options.stop_timeout # None /\ options.stop_timeout[1] # 0
                             THEN options.stop_timeout[1] ELSE interval]

\* The command lines: --session and --system are flags, --stop-timeout an int
BusOptions == {[session |-> s, system |-> y] : s \in {None, <<TRUE>>}, y \in {None, <<TRUE>>}}
Options(stop_timeouts) ==
    {[session |-> b.session, system |-> b.system, stop_timeout |-> st] :
        b \in BusOptions, st \in stop_timeouts}

\* What a turn of the main loop found as it began: the client the call or
\* the notification was about, the number of held clients, whether that
\* client was held, the run state, whether the stop timer's handle was set
\* and when its source was due, whether the application was held, the stop
\* requests the turn made, and whether its handler returned or raised
TurnOf(op, name, stops) ==
    [op |-> op, name |-> name,
     count |-> Cardinality(DOMAIN hold_clients),
     was_held |-> name \in DOMAIN hold_clients,
     svc |-> svc,
     armed |-> stop_kolibri_timeout_source # None,
     due |-> {s.due : s \in {x \in sources : x.cb = "stop_kolibri"}},
     app_held |-> hold_tokens # {},
     stops |-> stops,
     result |-> "return"]
Turn(op) == TurnOf(op, "", 0)

Init ==
    /\ phase = "constructed"
    /\ now = 0
    /\ use_session_bus = None
    /\ use_system_bus = None
    /\ accounts_service = None
    /\ use_count = 0
    /\ inactivity_due = None
    /\ hold_tokens = {}
    /\ login_tokens = <<>>
    /\ next_uuid = 1
    /\ reply = None
    /\ alive = Clients
    /\ hold_clients = <<>>
    /\ bus_watches = {}
    /\ next_watch_id = 1
    \* PublicDBusInterface.init: the two periodic timers
    /\ sources = {[id |-> 1, cb |-> "watch_changes", due |-> 1],
                  [id |-> 2, cb |-> "auto_stop", due |-> 5]}
    /\ next_source_id = 3
    /\ watch_changes_timeout_source = <<1>>
    /\ auto_stop_timeout_source = <<2>>
    /\ stop_kolibri_timeout_source = None
    /\ stop_kolibri_timeout_interval = DEFAULT_STOP_KOLIBRI_TIMEOUT_SECONDS
    /\ svc = "STOPPED"
    /\ held = {}
    /\ released_at = None
    /\ last = Turn("init")
    /\ timer_stops = 0
    /\ issued = {}
    /\ redeemed = <<>>
    /\ lastPop = None
    /\ lastGet = None

\* Application.run: the local options are handled, the application starts up
\* and, being a service, waits 10 s for a first use before it gives up
Startup(options) ==
    /\ phase = "constructed"
    /\ LET o == do_handle_local_options(options, stop_kolibri_timeout_interval) IN
        /\ use_system_bus' = <<o.use_system_bus>>
        /\ use_session_bus' = <<o.use_session_bus>>
        /\ stop_kolibri_timeout_interval' = o.autostop_timeout
    /\ phase' = "running"
    /\ inactivity_due' = <<now + 10>>
    /\ last' = Turn("startup")
    /\ UNCHANGED <<now, accounts_service, use_count, hold_tokens, tokenVars, reply,
                   alive, regVars, timerVars, svcVars, histVars>>

\* Application.__system_bus_on_get
SystemBusOnGet ==
    /\ phase = "running"
    /\ use_system_bus = <<TRUE>>
    /\ accounts_service = None
    /\ accounts_service' = <<"AccountsServiceManager">>
    /\ last' = Turn("system_bus_on_get")
    /\ UNCHANGED <<phase, now, use_session_bus, use_system_bus, appVars, tokenVars,
                   reply, alive, regVars, timerVars, stop_kolibri_timeout_interval,
                   svcVars, histVars>>

\* The main interface is exported on the session bus at registration, and on
\* the system bus once that bus is there
PublicExported ==
    /\ phase = "running"
    /\ use_session_bus = <<TRUE>> \/ accounts_service # None

\* PublicDBusInterface.shutdown, from Application.do_shutdown; join() returns
\* when the service has stopped
shutdown(c) ==
    [request_stop(cancel_auto_stop_timeout(cancel_watch_changes_timeout(c)))
        EXCEPT !.svc = "STOPPED"]

DoShutdown ==
    /\ phase' = "shutdown"
    /\ last' = TurnOf("shutdown", "", 1)
    /\ SetCtl(shutdown(CtlState))
    /\ UNCHANGED <<now, busVars, use_count, hold_tokens, tokenVars, reply, alive,
                   regVars, stop_kolibri_timeout_interval, histVars>>

\* GApplication's inactivity timeout expires: the main loop ends
InactivityExpired ==
    /\ phase = "running"
    /\ inactivity_due # None
    /\ inactivity_due[1] <= now
    /\ inactivity_due' = None
    /\ DoShutdown

\* Application.do_name_lost
NameLost ==
    /\ phase = "running"
    /\ UNCHANGED inactivity_due
    /\ DoShutdown

-----------------------------------------------------------------------------
(* The handlers of the main interface *)

\* How an invocation completed: with a value, or with an error
Reply(kind, value) == <<[kind |-> kind, value |-> value]>>

\* A new run of the service starts when a start request finds it stopped
NewRun(s) == s = "STOPPED" /\ start_kolibri(s) # "STOPPED"

\* PublicDBusInterface.__on_handle_hold
HandleHold(name) ==
    /\ PublicExported
    /\ name \in alive
    /\ name \in DOMAIN hold_clients \/ next_watch_id <= MaxWatchId
    /\ SetApp(reset_inactivity_timeout(AppState, now))
    /\ SetReg(hold_for_client(RegState, name))
    /\ held' = held \cup {name}
    /\ last' = TurnOf("hold", name, 0)
    /\ UNCHANGED <<phase, now, busVars, tokenVars, reply, alive, timerVars,
                   stop_kolibri_timeout_interval, svcVars, histVars>>

\* PublicDBusInterface.__on_handle_release
HandleRelease(name) ==
    /\ PublicExported
    /\ name \in alive
    /\ SetApp(reset_inactivity_timeout(AppState, now))
    /\ SetReg(release_for_client(RegState, name))
    /\ held' = held \ {name}
    /\ last' = TurnOf("release", name, 0)
    /\ UNCHANGED <<phase, now, busVars, tokenVars, reply, alive, timerVars,
                   stop_kolibri_timeout_interval, svcVars, histVars>>

\* A client's connection closes: its unique name loses its owner for good
ClientDisconnect(name) ==
    /\ phase = "running"
    /\ name \in alive
    /\ alive' = alive \ {name}
    /\ last' = Turn("disconnect")
    /\ UNCHANGED <<phase, now, busVars, appVars, tokenVars, reply, regVars, timerVars,
                   stop_kolibri_timeout_interval, svcVars, histVars>>

\* Gio calls the name-vanished handler of a watch whose name has no owner:
\* PublicDBusInterface.__on_hold_client_vanished
HoldClientVanished(w) ==
    /\ phase = "running"
    /\ w \in bus_watches
    /\ w.name \notin alive
    /\ SetReg(on_hold_client_vanished(RegState, w.name))
    /\ held' = held \ {w.name}
    /\ last' = TurnOf("vanished", w.name, 0)
    /\ UNCHANGED <<phase, now, busVars, appVars, tokenVars, reply, alive, timerVars,
                   stop_kolibri_timeout_interval, svcVars, histVars>>

\* PublicDBusInterface.__on_handle_start
HandleStart(name) ==
    /\ PublicExported
    /\ name \in alive
    /\ SetApp(reset_inactivity_timeout(AppState, now))
    /\ svc' = start_kolibri(svc)
    /\ timer_stops' = IF NewRun(svc) THEN 0 ELSE timer_stops
    /\ last' = Turn("start")
    /\ UNCHANGED <<phase, now, busVars, tokenVars, reply, alive, regVars, timerVars,
                   stop_kolibri_timeout_interval>>

\* PublicDBusInterface.__on_handle_stop
HandleStop(name) ==
    /\ PublicExported
    /\ name \in alive
    /\ SetApp(reset_inactivity_timeout(AppState, now))
    /\ svc' = stop_kolibri(svc)
    /\ last' = TurnOf("stop", "", 1)
    /\ UNCHANGED <<phase, now, busVars, tokenVars, reply, alive, regVars, timerVars,
                   stop_kolibri_timeout_interval, histVars>>

\* The ServiceManager finishes what it was asked: the service comes up, or
\* has stopped
SvcProgress ==
    /\ phase = "running"
    /\ svc \in {"STARTING", "STOPPING"}
    /\ svc' = IF svc = "STARTING" THEN "RUNNING" ELSE "STOPPED"
    /\ last' = Turn("progress")
    /\ UNCHANGED <<phase, now, busVars, appVars, tokenVars, reply, alive, regVars,
                   timerVars, stop_kolibri_timeout_interval, histVars>>

-----------------------------------------------------------------------------
(* The timer callbacks *)

Due(cb) == {s \in sources : s.cb = cb /\ s.due <= now}

\* What GLib does with the source of a periodic callback: it keeps the
\* source when the callback returned SOURCE_CONTINUE; a callback that raised
\* has returned nothing, which PyGObject hands to GLib as FALSE, and the
\* source is destroyed
dispatched(c, id, interval, result, t) ==
    IF result = "SOURCE_CONTINUE" THEN source_continue(c, id, interval, t)
    ELSE source_remove(c, id)

\* PublicDBusInterface.__watch_changes_timeout_cb
WatchChangesTick ==
    /\ phase = "running"
    /\ \E s \in Due("watch_changes") :
        SetCtl(dispatched(CtlState, s.id, 1, "SOURCE_CONTINUE", now))
    /\ last' = Turn("watch_changes")
    /\ UNCHANGED <<phase, now, busVars, appVars, tokenVars, reply, alive, regVars,
                   stop_kolibri_timeout_interval, histVars>>

\* PublicDBusInterface.__auto_stop_timeout_cb; the turn is recorded with the
\* run state that cleanup left, the one the callback's conditions read
AutoStopTick ==
    /\ phase = "running"
    /\ \E s \in Due("auto_stop"), cleaned \in cleanup(svc) :
        LET count == clients_count(RegState)
            c     == auto_stop_timer_step([CtlState EXCEPT !.svc = cleaned], count,
                                          stop_kolibri_timeout_interval, now)
            a     == auto_stop_hold_step(AppState, count, is_running(c.svc),
                                         PublicInterface, now)
        IN /\ SetCtl(dispatched(c, s.id, 5, "SOURCE_CONTINUE", now))
           /\ SetApp(a)
           /\ timer_stops' = timer_stops + c.stops
           /\ last' = [TurnOf("auto_stop", "", c.stops) EXCEPT !.svc = cleaned]
    /\ UNCHANGED <<phase, now, busVars, tokenVars, reply, alive, regVars,
                   stop_kolibri_timeout_interval>>

\* __watch_changes_timeout_cb when pop_has_changes, or a property read in
\* __update_cached_properties, raises: nothing in the callback catches it
WatchChangesTickFailing ==
    /\ phase = "running"
    /\ \E s \in Due("watch_changes") :
        SetCtl(dispatched(CtlState, s.id, 1, "raise", now))
    /\ last' = [Turn("watch_changes_failing") EXCEPT !.result = "raise"]
    /\ UNCHANGED <<phase, now, busVars, appVars, tokenVars, reply, alive, regVars,
                   stop_kolibri_timeout_interval, histVars>>

\* __auto_stop_timeout_cb when cleanup or the first is_running raises (at
\* "start": nothing was done yet) or the second is_running raises (at
\* "hold": the stop timer was armed or cancelled, the hold not yet looked
\* at); nothing in the callback catches it
AutoStopTickFailing(at) ==
    /\ phase = "running"
    /\ \E s \in Due("auto_stop"), cleaned \in cleanup(svc) :
        LET count == clients_count(RegState)
            c0    == [CtlState EXCEPT !.svc = IF at = "start" THEN svc ELSE cleaned]
            c     == IF at = "start" THEN c0
                     ELSE auto_stop_timer_step(c0, count,
                                               stop_kolibri_timeout_interval, now)
        IN /\ SetCtl(dispatched(c, s.id, 5, "raise", now))
           /\ last' = [Turn("auto_stop_failing") EXCEPT !.result = "raise"]
    /\ UNCHANGED <<phase, now, busVars, appVars, tokenVars, reply, alive, regVars,
                   stop_kolibri_timeout_interval, histVars>>

\* The stop timer's source is dispatched:
\* PublicDBusInterface.__stop_kolibri_timeout_cb
StopKolibriTimeout ==
    /\ phase = "running"
    /\ \E s \in Due("stop_kolibri") :
        LET count == clients_count(RegState)
            c     == stop_kolibri_timeout_cb(CtlState, s.id, count)
        IN /\ SetCtl(c)
           /\ timer_stops' = timer_stops + c.stops
           /\ last' = TurnOf("stop_kolibri", "", c.stops)
    /\ UNCHANGED <<phase, now, busVars, appVars, tokenVars, reply, alive, regVars,
                   stop_kolibri_timeout_interval>>

\* A second passes; a timer that is due is dispatched first.  The time of
\* the last release is dropped once the stop interval has passed since
AdvanceWithin(max_time) ==
    /\ phase = "running"
    /\ now < max_time
    /\ \A s \in sources : s.due > now
    /\ inactivity_due # None => inactivity_due[1] > now
    /\ now' = now + 1
    /\ last' = Turn("advance")
    /\ released_at' = IF released_at # None
                         /\ now + 1 >= released_at[1] + stop_kolibri_timeout_interval
                      THEN None ELSE released_at
    /\ UNCHANGED <<phase, busVars, appVars, tokenVars, reply, alive, hold_clients,
                   bus_watches, next_watch_id, held, timerVars,
                   stop_kolibri_timeout_interval, svcVars, histVars>>

Advance == AdvanceWithin(MaxTime)

-----------------------------------------------------------------------------
(* Application's hold interface, called in any order with any token *)

Tokens == {PublicInterface, "another"}

\* Application.hold_with_token(token); the call is recorded with whether the
\* token was in the set
HoldWithToken(token) ==
    /\ SetApp(hold_with_token(AppState, token))
    /\ last' = [TurnOf("hold_with_token", token, 0)
                    EXCEPT !.was_held = token \in hold_tokens]
    /\ UNCHANGED <<phase, now, busVars, tokenVars, reply, alive, regVars, timerVars,
                   stop_kolibri_timeout_interval, svcVars, histVars>>

\* Application.release_with_token(token)
ReleaseWithToken(token) ==
    /\ SetApp(release_with_token(AppState, token, now))
    /\ last' = [TurnOf("release_with_token", token, 0)
                    EXCEPT !.was_held = token \in hold_tokens]
    /\ UNCHANGED <<phase, now, busVars, tokenVars, reply, alive, regVars, timerVars,
                   stop_kolibri_timeout_interval, svcVars, histVars>>

\* Application.reset_inactivity_timeout()
ResetInactivityTimeout ==
    /\ SetApp(reset_inactivity_timeout(AppState, now))
    /\ last' = Turn("reset_inactivity_timeout")
    /\ UNCHANGED <<phase, now, busVars, tokenVars, reply, alive, regVars, timerVars,
                   stop_kolibri_timeout_interval, svcVars, histVars>>

\* Time passes between the calls
HoldClock ==
    /\ now < MaxTime
    /\ now' = now + 1
    /\ UNCHANGED <<phase, busVars, appVars, tokenVars, reply, alive, regVars, timerVars,
                   stop_kolibri_timeout_interval, svcVars, histVars, last>>

HoldNext ==
    \/ \E token \in Tokens : HoldWithToken(token)
    \/ \E token \in Tokens : ReleaseWithToken(token)
    \/ ResetInactivityTimeout
    \/ HoldClock

HoldSpec == Init /\ [][HoldNext]_vars

-----------------------------------------------------------------------------
(* The login-token handlers *)

\* The last token generate_for_user returned for the user, if any
Latest(user_id) ==
    {r \in issued : r.user_id = user_id /\ \A q \in issued : q.user_id = user_id => q.n <= r.n}

Redemptions(key) == IF key \in DOMAIN redeemed THEN redeemed[key] ELSE 0

\* The key is that of an issued token that was neither replaced nor redeemed
Fresh(key) ==
    /\ \E r \in issued : r.key = key /\ r \in Latest(r.user_id)
    /\ Redemptions(key) = 0

\* The calls that fail inside __on_handle_get_login_token raise out of it:
\* get_user_id_for_dbus_invocation, and get_user_by_id in __get_user_detail
get_login_token_raises(caller) ==
    \/ caller = UnresolvedCaller
    \/ /\ ~(LOCAL_USER_PWD # None /\ caller = LOCAL_USER_PWD[1].pw_uid)
       /\ accounts_service # None
       /\ get_user_by_id_fails(caller)

\* PublicDBusInterface.__on_handle_get_login_token; a handler that raises
\* has completed the invocation in no way
HandleGetLoginToken(caller) ==
    /\ PublicExported
    /\ next_uuid <= MaxUuid
    /\ SetApp(reset_inactivity_timeout(AppState, now))
    /\ IF get_login_token_raises(caller)
       THEN /\ reply' = Reply("exception", None)
            /\ UNCHANGED <<login_tokens, next_uuid, issued>>
       ELSE IF get_user_detail(caller) = None
       THEN /\ reply' = Reply("error", None)
            /\ UNCHANGED <<login_tokens, next_uuid, issued>>
       ELSE LET g == generate_for_user(login_tokens, get_user_detail(caller)[1],
                                       next_uuid, now)
            IN /\ login_tokens' = g.tokens
               /\ next_uuid' = next_uuid + 1
               /\ issued' = issued \cup {[key |-> g.result.key,
                                          user_id |-> Str(g.result.user.user_id),
                                          t0 |-> now, n |-> next_uuid]}
               /\ reply' = Reply("value", <<g.result.key>>)
    /\ lastGet' = <<[caller |-> caller, resolved |-> Resolved(caller),
                     before |-> login_tokens]>>
    /\ UNCHANGED <<phase, now, busVars, redeemed, lastPop, alive, regVars, timerVars,
                   stop_kolibri_timeout_interval, svcVars, histVars, last>>

\* The reply of PrivateDBusInterface.__on_check_login_token: its dict is
\* <<user>> for login_token.user._asdict() and None for dict()
check_login_token_reply(login_token) ==
    IF login_token # None THEN Reply("value", <<login_token[1].user>>)
    ELSE Reply("value", None)

\* PrivateDBusInterface.__on_check_login_token
HandleCheckLoginToken(token_key) ==
    /\ phase = "running"
    /\ SetApp(reset_inactivity_timeout(AppState, now))
    /\ LET p == pop_login_token(login_tokens, token_key, now) IN
        /\ login_tokens' = p.tokens
        /\ redeemed' = IF p.result # None
                        THEN [k \in DOMAIN redeemed \cup {token_key} |->
                                IF k = token_key THEN Redemptions(k) + 1 ELSE redeemed[k]]
                        ELSE redeemed
        /\ reply' = check_login_token_reply(p.result)
        /\ lastPop' = <<[key |-> token_key, time |-> now, result |-> p.result,
                         before |-> login_tokens, after |-> p.tokens,
                         fresh |-> Fresh(token_key),
                         reply |-> check_login_token_reply(p.result)]>>
    /\ lastGet' = None
    /\ UNCHANGED <<phase, now, busVars, next_uuid, issued, alive, regVars, timerVars,
                   stop_kolibri_timeout_interval, svcVars, histVars, last>>

\* The keys check_login_token is called with: the keys that were issued, and
\* forged ones: an issued key cut short (the user id alone, the user id and
\* the separator) or with one character more, the key of a user that has no
\* token, a suffix alone, the empty string
IssuedKeys == {r.key : r \in issued}
ForgedKeys ==
    {Partition(k)[1] : k \in IssuedKeys}
    \cup {Partition(k)[1] \o <<":">> : k \in IssuedKeys}
    \cup {k \o <<"0">> : k \in IssuedKeys}
    \cup {generate_token_key(Str(12), 1), <<":", "1">>, <<>>}
PopInputs == IssuedKeys \cup ForgedKeys

\* The monotonic clock moves on, not past the time GApplication's inactivity
\* timeout is due
TimeSteps == {30}
TokenClock(d) ==
    /\ phase = "running"
    /\ now + d <= MaxTokenTime
    /\ inactivity_due # None => now + d <= inactivity_due[1]
    /\ now' = now + d
    /\ UNCHANGED <<phase, busVars, appVars, tokenVars, reply, alive, regVars,
                   timerVars, stop_kolibri_timeout_interval, svcVars, histVars, last>>

\* The command line of TokenSpec: both buses, so that the local user and the
\* users of the accounts service get tokens
BothBusOptions == {o \in Options({None}) : o.session # None /\ o.system # None}

\* The login tokens alone: no client holds and the service is never started,
\* so the timer callbacks change nothing and are left out
TokenNext ==
    \/ \E o \in BothBusOptions : Startup(o)
    \/ SystemBusOnGet
    \/ \E caller \in Callers : HandleGetLoginToken(caller)
    \/ \E k \in PopInputs : HandleCheckLoginToken(k)
    \/ \E d \in TimeSteps : TokenClock(d)
    \/ InactivityExpired

TokenSpec == Init /\ [][TokenNext]_vars

\* The command lines of Spec: the session bus, and a stop timeout shorter
\* or longer than the period of the reconciliation tick
StopTimeouts == {<<2>>, <<7>>}
SessionOptions == {o \in Options(StopTimeouts) : o.system = None}

Next ==
    \/ \E o \in SessionOptions : Startup(o)
    \/ \E name \in Clients : HandleHold(name)
    \/ \E name \in Clients : HandleRelease(name)
    \/ \E name \in Clients : HandleStart(name)
    \/ \E name \in Clients : HandleStop(name)
    \/ \E name \in Clients : ClientDisconnect(name)
    \/ \E w \in bus_watches : HoldClientVanished(w)
    \/ SvcProgress
    \/ WatchChangesTick
    \/ AutoStopTick
    \/ StopKolibriTimeout
    \/ Advance
    \/ InactivityExpired
    \/ NameLost

Spec == Init /\ [][Next]_vars

\* The daemon with one client and the short stop timeout, over a time longer
\* than the inactivity timeout
ExitClients == {"c1"}
ExitOptions == {o \in SessionOptions : o.stop_timeout = <<2>>}
ExitAdvance == AdvanceWithin(MaxExitTime)

ExitNext ==
    \/ \E o \in ExitOptions : Startup(o)
    \/ \E name \in ExitClients : HandleHold(name)
    \/ \E name \in ExitClients : HandleRelease(name)
    \/ \E name \in ExitClients : HandleStart(name)
    \/ \E name \in ExitClients : HandleStop(name)
    \/ \E name \in ExitClients : ClientDisconnect(name)
    \/ \E w \in bus_watches : HoldClientVanished(w)
    \/ SvcProgress
    \/ WatchChangesTick
    \/ AutoStopTick
    \/ StopKolibriTimeout
    \/ ExitAdvance
    \/ InactivityExpired
    \/ NameLost

ExitSpec == Init /\ [][ExitNext]_vars

\* The daemon under a main loop that dispatches every source that is due and
\* lets time pass.  The clients and the ServiceManager act in the first
\* QuietFrom seconds, and time runs on for a tick and a stop timeout more.
LiveMaxTime == QuietFrom + 5 + 2
LiveAdvance == AdvanceWithin(LiveMaxTime)
Busy == now < QuietFrom

LiveNext ==
    \/ \E o \in ExitOptions : Startup(o)
    \/ \E name \in ExitClients : Busy /\ HandleHold(name)
    \/ \E name \in ExitClients : Busy /\ HandleRelease(name)
    \/ \E name \in ExitClients : Busy /\ HandleStart(name)
    \/ \E name \in ExitClients : Busy /\ HandleStop(name)
    \/ \E name \in ExitClients : Busy /\ ClientDisconnect(name)
    \/ \E w \in bus_watches : Busy /\ HoldClientVanished(w)
    \/ Busy /\ SvcProgress
    \/ WatchChangesTick
    \/ AutoStopTick
    \/ StopKolibriTimeout
    \/ LiveAdvance
    \/ InactivityExpired
    \/ Busy /\ NameLost

LiveSpec ==
    /\ Init /\ [][LiveNext]_vars
    /\ WF_vars(WatchChangesTick)
    /\ WF_vars(AutoStopTick)
    /\ WF_vars(StopKolibriTimeout)
    /\ WF_vars(InactivityExpired)
    /\ WF_vars(LiveAdvance)

\* The daemon with a ServiceManager whose housekeeping calls may raise
FailNext ==
    \/ \E o \in ExitOptions : Startup(o)
    \/ \E name \in ExitClients : HandleHold(name)
    \/ \E name \in ExitClients : HandleRelease(name)
    \/ \E name \in ExitClients : HandleStart(name)
    \/ \E name \in ExitClients : HandleStop(name)
    \/ \E name \in ExitClients : ClientDisconnect(name)
    \/ \E w \in bus_watches : HoldClientVanished(w)
    \/ SvcProgress
    \/ WatchChangesTick
    \/ AutoStopTick
    \/ StopKolibriTimeout
    \/ Advance
    \/ InactivityExpired
    \/ NameLost
    \/ WatchChangesTickFailing
    \/ \E at \in {"start", "hold"} : AutoStopTickFailing(at)

FailSpec == Init /\ [][FailNext]_vars

-----------------------------------------------------------------------------
(* The hold registry *)

\* C1: after any sequence of Hold, Release and disconnect notifications,
\* clients_count is the number of clients that were held and not since
\* released or disconnected, and the registry holds exactly those clients;
\* a disconnect notification for a client leaves the registry as a Release
\* of that client would.
CountIsNumberOfHeldClients ==
    /\ clients_count(RegState) = Cardinality(held)
    /\ DOMAIN hold_clients = held
    /\ \A name \in Clients :
        on_hold_client_vanished(RegState, name) = release_for_client(RegState, name)

\* A held client disconnected and was dropped while another is still held
DisconnectReleasedAClient ==
    /\ last.op = "vanished"
    /\ last.was_held
    /\ last.name \notin held
    /\ held # {}

\* C2: in every registry state, for every client, a second Hold changes
\* nothing the first left, and a Release of a client that is not held
\* changes nothing.
HoldAndReleaseAreIdempotent ==
    \A name \in Clients :
        /\ hold_for_client(hold_for_client(RegState, name), name)
             = hold_for_client(RegState, name)
        /\ name \in DOMAIN hold_clients => hold_for_client(RegState, name) = RegState
        /\ name \notin DOMAIN hold_clients => release_for_client(RegState, name) = RegState
        /\ release_for_client(release_for_client(RegState, name), name)
             = release_for_client(RegState, name)

\* A client that was held called Hold again
HeldClientHeldAgain ==
    /\ last.op = "hold"
    /\ last.was_held
    /\ last.name \in held

-----------------------------------------------------------------------------
(* The login tokens *)

Redeemable(key) == pop_login_token(login_tokens, key, now).result # None

KeysOf(user_id) == {r.key : r \in {q \in issued : q.user_id = user_id}}

\* C3: a user has at most one token that can be redeemed: a key that a later
\* generate_for_user for the same user replaced is not redeemable, and the
\* last key of the user is, as long as it is neither redeemed nor expired.
OneLiveTokenPerUser ==
    \A r \in issued :
        /\ Cardinality({k \in KeysOf(r.user_id) : Redeemable(k)}) <= 1
        /\ r \notin Latest(r.user_id) => ~Redeemable(r.key)
        /\ (r \in Latest(r.user_id) /\ Redemptions(r.key) = 0
              /\ now - r.t0 < TOKEN_EXPIRE_TIME) => Redeemable(r.key)

\* The key that was replaced was tried, in vain, and the new one is good
ReplacedKeyWasRefused ==
    /\ lastPop # None
    /\ \E r \in issued : /\ r.key = lastPop[1].key
                         /\ r \notin Latest(r.user_id)
                         /\ lastPop[1].time - r.t0 < TOKEN_EXPIRE_TIME
                         /\ \E q \in Latest(r.user_id) : Redeemable(q.key)
    /\ lastPop[1].result = None

\* C4: no token is returned twice: a key is redeemed at most once, the call
\* that returns a token is the first for its key, and every other call
\* replies with the empty map.
TokenIsSingleUse ==
    /\ \A k \in DOMAIN redeemed : redeemed[k] <= 1
    /\ lastPop # None =>
        /\ lastPop[1].result # None => lastPop[1].fresh
        /\ lastPop[1].result # None => lastPop[1].reply = Reply("value", <<lastPop[1].result[1].user>>)
        /\ lastPop[1].result = None => lastPop[1].reply = Reply("value", None)

\* A key was used a second time before it expired, and got nothing
SecondUseWasRefused ==
    /\ lastPop # None
    /\ lastPop[1].result = None
    /\ Redemptions(lastPop[1].key) = 1
    /\ \E r \in issued : /\ r.key = lastPop[1].key
                         /\ r \in Latest(r.user_id)
                         /\ lastPop[1].time - r.t0 < TOKEN_EXPIRE_TIME

IssuedAt(key) == (CHOOSE r \in issued : r.key = key).t0

\* C5 as stated: a token that was neither redeemed nor replaced is returned
\* at an age below TOKEN_EXPIRE_TIME and is absent from that age on.
TokenAbsentFromExpireTimeOn ==
    (lastPop # None /\ lastPop[1].fresh) =>
        (lastPop[1].result # None
            <=> lastPop[1].time - IssuedAt(lastPop[1].key) < TOKEN_EXPIRE_TIME)

\* C5, amended: a token that was neither redeemed nor replaced is returned
\* up to and at the age of TOKEN_EXPIRE_TIME and is absent past it.
TokenAbsentPastExpireTime ==
    (lastPop # None /\ lastPop[1].fresh) =>
        (lastPop[1].result # None
            <=> lastPop[1].time - IssuedAt(lastPop[1].key) <= TOKEN_EXPIRE_TIME)

\* A token was redeemed at the very age of TOKEN_EXPIRE_TIME
RedeemedAtExpireTime ==
    /\ lastPop # None
    /\ lastPop[1].fresh
    /\ lastPop[1].time - IssuedAt(lastPop[1].key) = TOKEN_EXPIRE_TIME
    /\ lastPop[1].result # None

\* C6: pop_login_token returns a token, and deletes it, only for the very
\* key of a stored token; for any other key it returns nothing and leaves
\* the unexpired tokens as they were, the one of the user the key names
\* still redeemable.
OnlyTheExactKeyRedeems ==
    lastPop # None =>
        LET p     == lastPop[1]
            live  == revoke_expired_tokens(p.before, p.time)
            named == Partition(p.key)[1]
            exact == {u \in DOMAIN live : live[u].key = p.key}
        IN /\ p.result # None =>
                /\ exact # {}
                /\ \A u \in exact : /\ p.result = <<live[u]>>
                                    /\ p.after = [v \in DOMAIN live \ {u} |-> live[v]]
           /\ exact = {} =>
                /\ p.result = None
                /\ p.after = live
                /\ named \in DOMAIN live =>
                     pop_login_token(p.after, live[named].key, p.time).result
                        = <<live[named]>>

\* A key that names a user with a token, but is not the token's key, got
\* nothing
ForgedKeyWasRefused ==
    /\ lastPop # None
    /\ lastPop[1].result = None
    /\ Partition(lastPop[1].key)[1] \in DOMAIN lastPop[1].after
    /\ lastPop[1].after[Partition(lastPop[1].key)[1]].key # lastPop[1].key
    /\ Len(lastPop[1].key) < Len(lastPop[1].after[Partition(lastPop[1].key)[1]].key)

-----------------------------------------------------------------------------
(* The stop timer and the application hold *)

StopKolibriSources == {s \in sources : s.cb = "stop_kolibri"}

\* C7 as stated: when the stop timer fires with no client held it requests
\* one stop, and the stop timer requests at most one stop between two starts
\* of the service.
StopTimerStopsOncePerRun ==
    /\ last.op = "stop_kolibri" /\ last.count = 0 => last.stops = 1
    /\ timer_stops <= 1

\* C7, amended: when the stop timer fires with no client held it requests
\* exactly one stop, and the firing uses up the arming it came from: the
\* handle was set and is cleared, and no source of the stop timer is left, so
\* that a further stop takes a further arming by a reconciliation tick, which
\* itself requests none.
StopTimerStopsOncePerArming ==
    /\ last.op = "stop_kolibri" =>
          /\ last.armed
          /\ stop_kolibri_timeout_source = None
          /\ StopKolibriSources = {}
          /\ last.count = 0 => last.stops = 1 /\ svc = stop_kolibri(last.svc)
    /\ last.op = "auto_stop" => last.stops = 0

\* The stop timer fired with no client held and the running service was
\* asked to stop
StopTimerStoppedTheService ==
    /\ last.op = "stop_kolibri"
    /\ last.count = 0
    /\ last.svc = "RUNNING"
    /\ svc = "STOPPING"

\* C8: a firing of the stop timer that finds a client held requests no stop
\* and leaves the service as it was, and a reconciliation tick that finds a
\* client held requests no stop and leaves the stop timer disarmed.
StopTimerSparesHeldService ==
    /\ last.op = "stop_kolibri" /\ last.count > 0 =>
          last.stops = 0 /\ svc = last.svc
    /\ last.op = "auto_stop" /\ last.count > 0 =>
          /\ last.stops = 0 /\ svc = last.svc
          /\ stop_kolibri_timeout_source = None
          /\ StopKolibriSources = {}

\* The armed stop timer fired after a client had taken a hold, and the
\* service runs on
StopTimerFiredWhileHeld ==
    /\ last.op = "stop_kolibri"
    /\ last.armed
    /\ last.count > 0
    /\ svc = "RUNNING"

\* C9: after a reconciliation tick the application holds the interface's
\* token if and only if the tick found a client held or the service running,
\* starting or stopping.
HoldTokenFollowsClientsAndService ==
    last.op = "auto_stop" =>
        (PublicInterface \in hold_tokens <=> (last.count > 0 \/ is_running(last.svc)))

\* A tick found no client and the service stopped, and retracted the token
\* that was held until then
TickRetractedTheHoldToken ==
    /\ last.op = "auto_stop"
    /\ last.count = 0
    /\ last.svc = "STOPPED"
    /\ last.app_held
    /\ PublicInterface \notin hold_tokens

\* C10: the application's use count is the number of tokens in the hold
\* set, and is never negative.
UseCountIsNumberOfHoldTokens ==
    /\ use_count = Cardinality(hold_tokens)
    /\ use_count >= 0

\* A token that was held was held again, with another token held as well
HeldTokenHeldAgain ==
    /\ last.op = "hold_with_token"
    /\ last.was_held
    /\ hold_tokens = Tokens
    /\ use_count = 2

-----------------------------------------------------------------------------
(* The daemon's exit *)

\* GApplication ends the main loop when nothing holds it and its inactivity
\* timeout has run out
EligibleToExit ==
    /\ use_count = 0
    /\ inactivity_due # None
    /\ inactivity_due[1] <= now

\* C11: while a client is held or the service is running, starting or
\* stopping, the running daemon is not eligible to exit: the interface's
\* token holds the application, or the inactivity timeout has yet to run out.
NoExitWhileHeldOrRunning ==
    phase = "running" /\ (clients_count(RegState) > 0 \/ is_running(svc)) =>
        /\ ~EligibleToExit
        /\ hold_tokens = {} => inactivity_due # None /\ inactivity_due[1] > now

\* The service runs on, held by the token alone, after its only client has
\* gone and longer after the start than the inactivity timeout lasts
ServiceOutlivedItsClient ==
    /\ phase = "running"
    /\ is_running(svc)
    /\ hold_clients = <<>>
    /\ ExitClients \cap alive = {}
    /\ hold_tokens = {PublicInterface}
    /\ now > INACTIVITY_TIMEOUT_S + 5

-----------------------------------------------------------------------------
(* Shutdown *)

\* C12: after shutdown no timer of the controller is pending, neither the
\* two periodic timers nor the stop timer, whether or not the stop timer was
\* armed when shutdown ran; and in every state, cancelling a timer whose
\* handle is not set changes nothing.
ShutdownCancelsEveryTimer ==
    /\ phase = "shutdown" =>
          /\ sources = {}
          /\ watch_changes_timeout_source = None
          /\ auto_stop_timeout_source = None
          /\ stop_kolibri_timeout_source = None
    /\ watch_changes_timeout_source = None =>
          cancel_watch_changes_timeout(CtlState) = CtlState
    /\ auto_stop_timeout_source = None =>
          cancel_auto_stop_timeout(CtlState) = CtlState
    /\ stop_kolibri_timeout_source = None =>
          cancel_stop_kolibri_timeout(CtlState) = CtlState

-----------------------------------------------------------------------------
(* The grace window *)

\* C13: when the stop timer asks the ServiceManager to stop, at least the
\* configured interval has passed since the last held client was released.
StopWaitsIntervalFromLastRelease ==
    last.op = "stop_kolibri" /\ last.stops > 0 /\ released_at # None =>
        now >= released_at[1] + stop_kolibri_timeout_interval

-----------------------------------------------------------------------------
(* GetLoginToken *)

\* C14: a GetLoginToken call from a caller that cannot be resolved to a user
\* is completed with an error and leaves the login tokens as they were; a
\* call from a caller that can be is completed with the key of the token
\* now stored for that user, and nothing else.
GetLoginTokenFailsWithAnError ==
    lastGet # None =>
        LET g == lastGet[1] IN
        /\ ~g.resolved => reply = Reply("error", None) /\ login_tokens = g.before
        /\ g.resolved =>
              /\ Str(g.caller) \in DOMAIN login_tokens
              /\ reply = Reply("value", <<login_tokens[Str(g.caller)].key>>)

-----------------------------------------------------------------------------
(* Failures in the periodic callbacks *)

\* The sources of the two periodic timers, by the handles the interface keeps
PeriodicSources(handle) == {s \in sources : handle # None /\ s.id = handle[1]}

\* C15: when a call made by a periodic callback fails, the callback still
\* returns, and its timer stays scheduled for the next tick.
PeriodicFailureIsContained ==
    /\ last.op = "watch_changes_failing" =>
          /\ last.result # "raise"
          /\ \E s \in PeriodicSources(watch_changes_timeout_source) : s.due = now + 1
    /\ last.op = "auto_stop_failing" =>
          /\ last.result # "raise"
          /\ \E s \in PeriodicSources(auto_stop_timeout_source) : s.due = now + 5

-----------------------------------------------------------------------------
(* Automatic stop *)

\* C16: if from some point on no client is held and the service stays
\* running, then the stop timer comes to ask the ServiceManager to stop that
\* run of the service; and if from some point on no client is held and the
\* service stays stopped, then the interface's hold token is released for good.
UnusedServiceIsStoppedAndReleased ==
    /\ <>[](phase = "running" /\ clients_count(RegState) = 0 /\ is_running(svc))
          => <>[](timer_stops > 0)
    /\ <>[](phase = "running" /\ clients_count(RegState) = 0 /\ svc = "STOPPED")
          => <>[](PublicInterface \notin hold_tokens)

\* The stop timer stopped the service that no client held, and a later tick
\* released the hold token
StoppedByTimerAndReleased ==
    /\ timer_stops > 0
    /\ svc = "STOPPED"
    /\ last.op = "auto_stop"
    /\ last.count = 0
    /\ last.app_held
    /\ hold_tokens = {}

-----------------------------------------------------------------------------
(* The bus options *)

\* C17: once the options are handled, exactly one of use_session_bus and
\* use_system_bus is true, whichever of --session and --system were given;
\* and a command line with neither selects the session bus.
ExactlyOneBusIsSelected ==
    /\ phase # "constructed" =>
          (use_session_bus = <<TRUE>>) # (use_system_bus = <<TRUE>>)
    /\ \A o \in Options({None}) :
          o.session = None /\ o.system = None =>
              do_handle_local_options(o, stop_kolibri_timeout_interval).use_session_bus

-----------------------------------------------------------------------------
(* The reconciliation tick and the stop timer *)

\* C18: after a reconciliation tick the stop timer is armed if the tick
\* found no client held and the service running, and is not armed
\* otherwise; and a tick that found it armed, no client held and the service
\* running has left its source and its deadline as they were.
TickArmsStopTimerWhenUnused ==
    last.op = "auto_stop" =>
        /\ stop_kolibri_timeout_source # None
              <=> (last.count = 0 /\ is_running(last.svc))
        /\ StopKolibriSources # {}
              <=> (last.count = 0 /\ is_running(last.svc))
        /\ last.armed /\ last.count = 0 /\ is_running(last.svc) =>
              {s.due : s \in StopKolibriSources} = last.due

\* A tick found the stop timer armed, no client held and the service running,
\* and the timer is still due when it was
TickLeftArmedStopTimer ==
    /\ last.op = "auto_stop"
    /\ last.armed
    /\ last.count = 0
    /\ is_running(last.svc)
    /\ \E s \in StopKolibriSources : s.due > now /\ last.due = {s.due}

\* C19: at most one source of the stop timer is pending, and one is pending
\* exactly when the handle is set, which is then that source's id; arming an
\* armed timer changes nothing; and when the timer has fired the handle is
\* cleared and no source is left, whether or not it asked for a stop.
StopTimerHandleMatchesItsSource ==
    /\ Cardinality(StopKolibriSources) <= 1
    /\ StopKolibriSources # {} <=> stop_kolibri_timeout_source # None
    /\ \A s \in StopKolibriSources : stop_kolibri_timeout_source = <<s.id>>
    /\ stop_kolibri_timeout_source # None =>
          begin_stop_kolibri_timeout(CtlState, stop_kolibri_timeout_interval, now)
            = CtlState
    /\ last.op = "stop_kolibri" =>
          stop_kolibri_timeout_source = None /\ StopKolibriSources = {}

\* The stop timer fired while a client was held: it asked for no stop, and
\* its handle is cleared
StopTimerFiredAndClearedItsHandle ==
    /\ last.op = "stop_kolibri"
    /\ last.armed
    /\ last.stops = 0
    /\ clients_count(RegState) > 0
    /\ stop_kolibri_timeout_source = None
    /\ StopKolibriSources = {}

-----------------------------------------------------------------------------
(* Requests to the ServiceManager *)

\* C20: the controller asks the ServiceManager to stop only a service that
\* is not already stopped, whether in Stop, when the stop timer fires or at
\* shutdown, and to start only one that is not already running or starting.
RequestsFollowTheRunState ==
    /\ last.stops > 0 => last.svc # "STOPPED"
    /\ last.op = "start" => last.svc \notin {"STARTING", "RUNNING"}

-----------------------------------------------------------------------------
(* The disconnect watches *)

\* C21: in every reachable state the active name watches and the held
\* clients correspond one to one, each held client's registry entry naming
\* its one watch; a Hold of a client that was not held has added one watch
\* and a Hold of a held client none, and a Release or a disconnect
\* notification of a held client has cancelled that client's watch and no
\* other, so no watch is left for a client that is not held and no held
\* client is without a watch.
WatchesMatchHeldClients ==
    /\ {w.name : w \in bus_watches} = held
    /\ Cardinality(bus_watches) = Cardinality(held)
    /\ \A name \in held :
        /\ name \in DOMAIN hold_clients
        /\ [id |-> hold_clients[name], name |-> name] \in bus_watches
    /\ last.op = "hold" =>
        Cardinality(bus_watches) = IF last.was_held THEN last.count ELSE last.count + 1
    /\ last.op \in {"release", "vanished"} =>
        /\ Cardinality(bus_watches) = IF last.was_held THEN last.count - 1 ELSE last.count
        /\ \A w \in bus_watches : w.name # last.name

\* A Release cancelled the watch of its client and left another client's
ReleaseCancelledOneWatchOfTwo ==
    /\ last.op = "release"
    /\ last.was_held
    /\ last.count = 2
    /\ Cardinality(bus_watches) = 1

====
